---- MODULE Spec2Model ----
(***************************************************************************)
(* State-machine model of the token-creator backend (src/index.js): the    *)
(* four HTTP handlers /calculate-fee, /generate-payment, /verify-payment   *)
(* and /create-token, the ledger they read through the RPC connection and  *)
(* the token program they drive.                                           *)
(*                                                                         *)
(* A handler is a JavaScript async function: it runs without interruption  *)
(* from one `await` to the next, so every action below is one such segment *)
(* (the code between two suspension points), and requests interleave only  *)
(* at the awaits.                                                          *)
(*                                                                         *)
(* Amounts.  Fees are JavaScript numbers in SOL (0.08, 0.03).  The model   *)
(* counts them in hundredths of a SOL, the granularity of the fee          *)
(* schedule.  For every fee h/100 with 0 <= h <= 30 the double product     *)
(* (h/100) * LAMPORTS_PER_SOL is exactly the integer h * 10^7, and the     *)
(* repeated double additions of /calculate-fee give the double nearest to  *)
(* the decimal sum, so integer arithmetic in hundredths agrees with the    *)
(* code on this domain.  Fees with a finer granularity (0.067 SOL gives    *)
(* 67000000.00000001) are outside the modelled inputs.                     *)
(***************************************************************************)
EXTENDS Integers, Sequences, FiniteSets, TLC

(* ------------------------------ bounds -------------------------------- *)

\* Number of request slots (requests in flight or finished in one behaviour).
MaxReq == 2

Reqs == 1..MaxReq

(* ------------------------ configuration (l.9-14) ----------------------- *)

DEV_WALLET == "dev"

\* 0.08 SOL, in hundredths of a SOL.
BASE_FEE_SOL == 8

\* 0.03 SOL, in hundredths of a SOL.
EXTRA_OPTION_FEE_SOL == 3

LAMPORTS_PER_SOL == 1000000000

\* expectedFee * LAMPORTS_PER_SOL, for a fee given in hundredths of a SOL.
ToLamports(fee) == fee * (LAMPORTS_PER_SOL \div 100)

(* ------------------------------ the ledger ----------------------------- *)

Wallets == {"alice", "bob"}

\* What connection.getTransaction can resolve to: null, a record without
\* meta, or a complete record.  Only account 0's balances are read.
NullTx ==
  [present |-> FALSE, meta |-> FALSE, accountKeys |-> <<>>,
   preBalance0 |-> 0, postBalance0 |-> 0]

NoMetaTx ==
  [present |-> TRUE, meta |-> FALSE, accountKeys |-> <<"alice", DEV_WALLET>>,
   preBalance0 |-> 0, postBalance0 |-> 0]

Tx(keys, pre, post) ==
  [present |-> TRUE, meta |-> TRUE, accountKeys |-> keys,
   preBalance0 |-> pre, postBalance0 |-> post]

\* Account 0's balance decrease: preBalances[0] - postBalances[0].
Lamports(txn) == txn.preBalance0 - txn.postBalance0

\* Balance of account 0 before the transaction, in every modelled record.
StartBalance == ToLamports(50)

\* A settled transaction in which account 0 lost `amount` lamports.
Paid(keys, amount) == Tx(keys, StartBalance, StartBalance - amount)

\* The fee with one option, in lamports.
OneOptionFee == ToLamports(BASE_FEE_SOL + EXTRA_OPTION_FEE_SOL)

\* Amounts around the fees the callers declare: one lamport short of the fee
\* with one option, and that fee exactly (which is above the base fee).
PaidAmounts == {OneOptionFee - 1, OneOptionFee}

\* Two-account transfers: to the operator, or to somebody else.
PaymentRecords ==
  {Paid(<<s, t>>, a) : s \in Wallets, t \in {DEV_WALLET, "bob"}, a \in PaidAmounts}

\* The records the ledger may hold for the signatures the callers quote.
LedgerRecords == {NullTx, NoMetaTx} \cup PaymentRecords

\* A transaction is listed for an address when its account list names it;
\* a listed signature's detail may be unavailable (null, or without meta).
Listed(txn) ==
  \/ ~(txn.present /\ txn.meta)
  \/ \E k \in DOMAIN txn.accountKeys : txn.accountKeys[k] = DEV_WALLET

RECURSIVE ListedFrom(_, _)
\* The signatures from index i on that are listed for DEV_WALLET.
ListedFrom(l, i) ==
  IF i > Len(l) THEN <<>>
  ELSE IF Listed(l[i]) THEN <<i>> \o ListedFrom(l, i + 1)
  ELSE ListedFrom(l, i + 1)

\* The operator's transaction history, newest first: signature 1 is the
\* newest transaction of the ledger.
HistoryOf(l) == ListedFrom(l, 1)

(* ------------------------------- requests ------------------------------ *)

FeeInputs == {BASE_FEE_SOL, BASE_FEE_SOL + EXTRA_OPTION_FEE_SOL}

\* payerSecret: a well-formed secret key of the caller, or bytes that
\* Keypair.fromSecretKey rejects.
Secrets == {"sk-carol", "malformed"}

ValidSecret(secret) == secret = "sk-carol"

\* Keypair.fromSecretKey(secret).publicKey
PublicKeyOf(secret) == "carol"

\* userWallet values: base58 keys, and a string new PublicKey() rejects.
ValidAddress(w) == w # "not base58"

\* A request body; an endpoint reads only its own fields.  `fee` is totalFee
\* or expectedFee; `options` holds the flags, which /calculate-fee reads from
\* the body itself.
Body(w, f, s, k, n, d, o) ==
  [userWallet |-> w, fee |-> f, paymentSignature |-> s, payerSecret |-> k,
   supply |-> n, decimals |-> d, options |-> o]

Options(m, z, d, c) ==
  [revokeMint |-> m, revokeFreeze |-> z, revokeMetadata |-> d,
   customMetadata |-> c]

NoFlags == Options(FALSE, FALSE, FALSE, FALSE)

NoBody == Body("", 0, 0, "", 0, 0, NoFlags)

NoLocals == [signatures |-> <<>>, i |-> 0, mint |-> 0, tokenAccount |-> ""]

\* The JSON of a response: the fields of the four routes' answers.
Payload(mint, tokenAccount, paid, totalFee, transaction) ==
  [mint |-> mint, tokenAccount |-> tokenAccount, paid |-> paid,
   totalFee |-> totalFee, transaction |-> transaction]

NoPayload == Payload(0, "", FALSE, 0, <<>>)

Response(status, message, payload) ==
  [status |-> status, message |-> message, payload |-> payload]

ErrorResponse(status, message) == Response(status, message, NoPayload)

VARIABLES
  ledger,    \* signature -> what getTransaction resolves to
  history,   \* signatures of the transactions listed for DEV_WALLET, newest first
  mints,     \* token program: the mints created so far, in creation order
  endpoint,  \* per request: the route it was sent to
  body,      \* per request: req.body
  pc,        \* per request: the await the handler is suspended at
  locals,    \* per request: the handler's local variables
  res,       \* per request: the responses written, in order
  failed,    \* per request: an external call made for it was rejected
  ops        \* per request: the token-program calls made, in order

vars == <<ledger, history, mints, endpoint, body, pc, locals, res, failed, ops>>

\* The state of the requests after construction: none has arrived.
NoRequests ==
  /\ mints = <<>>
  /\ endpoint = [r \in Reqs |-> "none"]
  /\ body = [r \in Reqs |-> NoBody]
  /\ pc = [r \in Reqs |-> "idle"]
  /\ locals = [r \in Reqs |-> NoLocals]
  /\ res = [r \in Reqs |-> <<>>]
  /\ failed = [r \in Reqs |-> FALSE]
  /\ ops = [r \in Reqs |-> <<>>]

\* A request arrives at `route` with body b and its handler runs up to the
\* await of `call`.  Requests are numbered in their order of arrival.
Arrive(r, route, b, call) ==
  /\ pc[r] = "idle"
  /\ \A q \in Reqs : q < r => pc[q] # "idle"
  /\ endpoint' = [endpoint EXCEPT ![r] = route]
  /\ body' = [body EXCEPT ![r] = b]
  /\ pc' = [pc EXCEPT ![r] = call]

\* res.status(..).json(..) followed by the handler's return.
Reply(r, response) ==
  /\ res' = [res EXCEPT ![r] = Append(@, response)]
  /\ pc' = [pc EXCEPT ![r] = "done"]

\* The handler calls a token-program operation and suspends on it.
Call(r, op) ==
  /\ ops' = [ops EXCEPT ![r] = Append(@, op)]
  /\ pc' = [pc EXCEPT ![r] = op]

(* ----------------------- /create-token (l.71-137) ---------------------- *)

\* l.77: the record and its meta are present.
RecordComplete(txn) == txn.present /\ txn.meta

\* l.82, l.87: accountKeys[0] is the declared wallet.
SenderMatches(txn, b) == txn.accountKeys[1] = b.userWallet

\* Mutant of ReceiverMatches: the receiver is never compared.
ReceiverNotChecked(txn) == TRUE

\* l.83, l.90: accountKeys[1] is the operator's wallet.
ReceiverMatches(txn) == txn.accountKeys[2] = DEV_WALLET

\* Mutant of AmountSufficient: the amount is never compared.
AmountNotChecked(txn, b) == TRUE

\* Mutant of AmountSufficient: the comparison excludes the fee itself.
AmountStrictlyAbove(txn, b) == Lamports(txn) > ToLamports(b.fee)

\* l.84, l.93: the balance decrease of account 0 covers the declared fee.
AmountSufficient(txn, b) == ~(Lamports(txn) < ToLamports(b.fee))

\* Mutant of PaymentError: the receiver is checked before the sender.
PaymentErrorReceiverFirst(txn, b) ==
  IF ~RecordComplete(txn) THEN "Invalid payment transaction."
  ELSE IF ~ReceiverMatches(txn) THEN "Payment receiver does not match dev wallet."
  ELSE IF ~SenderMatches(txn, b) THEN "Payment sender does not match wallet."
  ELSE IF ~AmountSufficient(txn, b) THEN "Incorrect payment amount."
  ELSE ""

\* Mutant of PaymentError: a reference that already backs a mint is refused.
PaymentErrorOnce(txn, b) ==
  IF ~RecordComplete(txn) THEN "Invalid payment transaction."
  ELSE IF ~SenderMatches(txn, b) THEN "Payment sender does not match wallet."
  ELSE IF ~ReceiverMatches(txn) THEN "Payment receiver does not match dev wallet."
  ELSE IF ~AmountSufficient(txn, b) THEN "Incorrect payment amount."
  ELSE IF \E m \in DOMAIN mints :
            body[mints[m].creator].paymentSignature = b.paymentSignature
    THEN "Payment already used."
  ELSE ""

\* l.77-95: the checks in the order the handler makes them; "" when all pass.
PaymentError(txn, b) ==
  IF ~RecordComplete(txn) THEN "Invalid payment transaction."
  ELSE IF ~SenderMatches(txn, b) THEN "Payment sender does not match wallet."
  ELSE IF ~ReceiverMatches(txn) THEN "Payment receiver does not match dev wallet."
  ELSE IF ~AmountSufficient(txn, b) THEN "Incorrect payment amount."
  ELSE ""

\* l.133-136: the catch block.
CreationFailed == ErrorResponse(500, "Token creation failed.")

\* l.127-131: the success response.
Created(r) ==
  Response(200, "Token created successfully!",
           Payload(locals[r].mint, locals[r].tokenAccount, FALSE, 0, <<>>))

\* l.72-76: the request arrives and getTransaction is awaited.
CreateTokenArrives(r, wallets, sigs, secrets) ==
  /\ \E w \in wallets, f \in FeeInputs, s \in sigs, k \in secrets,
        m \in BOOLEAN, z \in BOOLEAN :
       Arrive(r, "create-token",
              Body(w, f, s, k, 1, 9, Options(m, z, FALSE, FALSE)),
              "getTransaction")
  /\ UNCHANGED <<ledger, history, mints, locals, res, failed, ops>>

\* l.76-109: getTransaction resolved; the payment is checked and, when it
\* passes, the keypair is built and createMint is called.
CreateTokenVerify(r) ==
  /\ endpoint[r] = "create-token"
  /\ pc[r] = "getTransaction"
  /\ LET txn == ledger[body[r].paymentSignature]
         error == PaymentError(txn, body[r])
     IN  IF error # ""
           THEN Reply(r, ErrorResponse(400, error)) /\ UNCHANGED ops
         ELSE IF ~ValidSecret(body[r].payerSecret)
           THEN Reply(r, CreationFailed) /\ UNCHANGED ops
         ELSE Call(r, "createMint") /\ UNCHANGED res
  /\ UNCHANGED <<ledger, history, mints, endpoint, body, locals, failed>>

\* The mint Token.createMint initialises: both authorities are the payer's.
NewMint(r) ==
  [creator |-> r,
   mintAuthority |-> PublicKeyOf(body[r].payerSecret),
   freezeAuthority |-> PublicKeyOf(body[r].payerSecret),
   decimals |-> body[r].decimals,
   supply |-> 0,
   holder |-> ""]

\* l.102-112: createMint resolved with a new mint; the associated account is
\* requested.
CreateMintResolves(r) ==
  /\ endpoint[r] = "create-token"
  /\ pc[r] = "createMint"
  /\ mints' = Append(mints, NewMint(r))
  /\ locals' = [locals EXCEPT ![r].mint = Len(mints) + 1]
  /\ Call(r, "getOrCreateAssociatedAccountInfo")
  /\ UNCHANGED <<ledger, history, endpoint, body, res, failed>>

\* l.112-115: the holding account exists; mintTo is called.
AccountResolves(r) ==
  /\ endpoint[r] = "create-token"
  /\ pc[r] = "getOrCreateAssociatedAccountInfo"
  /\ mints' = [mints EXCEPT ![locals[r].mint].holder =
                 PublicKeyOf(body[r].payerSecret)]
  /\ locals' = [locals EXCEPT ![r].tokenAccount =
                  PublicKeyOf(body[r].payerSecret)]
  /\ Call(r, "mintTo")
  /\ UNCHANGED <<ledger, history, endpoint, body, res, failed>>

\* l.121-131: what follows the mint-authority step.
AfterRevokeMint(r) ==
  IF body[r].options.revokeFreeze
    THEN Call(r, "setAuthority FreezeAccount") /\ UNCHANGED res
    ELSE Reply(r, Created(r)) /\ UNCHANGED ops

\* Mutant of AfterMintTo: the freeze authority is handled first, and the
\* mint authority is forgotten after it.
AfterMintToFreezeFirst(r) ==
  IF body[r].options.revokeFreeze
    THEN Call(r, "setAuthority FreezeAccount") /\ UNCHANGED res
  ELSE IF body[r].options.revokeMint
    THEN Call(r, "setAuthority MintTokens") /\ UNCHANGED res
  ELSE Reply(r, Created(r)) /\ UNCHANGED ops

\* l.118-131: what follows mintTo.
AfterMintTo(r) ==
  IF body[r].options.revokeMint
    THEN Call(r, "setAuthority MintTokens") /\ UNCHANGED res
    ELSE AfterRevokeMint(r)

\* l.115-131: the supply was issued.
MintToResolves(r) ==
  /\ endpoint[r] = "create-token"
  /\ pc[r] = "mintTo"
  /\ mints' = [mints EXCEPT ![locals[r].mint].supply = @ + body[r].supply]
  /\ AfterMintTo(r)
  /\ UNCHANGED <<ledger, history, endpoint, body, locals, failed>>

\* l.119-131: the mint authority was set to null.
RevokeMintResolves(r) ==
  /\ endpoint[r] = "create-token"
  /\ pc[r] = "setAuthority MintTokens"
  /\ mints' = [mints EXCEPT ![locals[r].mint].mintAuthority = "null"]
  /\ AfterRevokeMint(r)
  /\ UNCHANGED <<ledger, history, endpoint, body, locals, failed>>

\* l.122-131: the freeze authority was set to null.
RevokeFreezeResolves(r) ==
  /\ endpoint[r] = "create-token"
  /\ pc[r] = "setAuthority FreezeAccount"
  /\ mints' = [mints EXCEPT ![locals[r].mint].freezeAuthority = "null"]
  /\ Reply(r, Created(r))
  /\ UNCHANGED <<ledger, history, endpoint, body, locals, failed, ops>>

CreateTokenAwaits ==
  {"getTransaction", "createMint", "getOrCreateAssociatedAccountInfo",
   "mintTo", "setAuthority MintTokens", "setAuthority FreezeAccount"}

\* l.133-136: the awaited call was rejected; the catch block answers 500.
CreateTokenCallRejects(r) ==
  /\ endpoint[r] = "create-token"
  /\ pc[r] \in CreateTokenAwaits
  /\ failed' = [failed EXCEPT ![r] = TRUE]
  /\ Reply(r, CreationFailed)
  /\ UNCHANGED <<ledger, history, mints, endpoint, body, locals, ops>>

CreateToken(r, wallets, sigs, secrets) ==
  \/ CreateTokenArrives(r, wallets, sigs, secrets)
  \/ CreateTokenVerify(r)
  \/ CreateMintResolves(r)
  \/ AccountResolves(r)
  \/ MintToResolves(r)
  \/ RevokeMintResolves(r)
  \/ RevokeFreezeResolves(r)
  \/ CreateTokenCallRejects(r)

(* ----------------------- /calculate-fee (l.17-25) ---------------------- *)

\* Mutant of TotalFee: customMetadata is not charged.
TotalFeeWithoutCustomMetadata(o) ==
  LET fee0 == BASE_FEE_SOL
      fee1 == IF o.revokeMint THEN fee0 + EXTRA_OPTION_FEE_SOL ELSE fee0
      fee2 == IF o.revokeFreeze THEN fee1 + EXTRA_OPTION_FEE_SOL ELSE fee1
      fee3 == IF o.revokeMetadata THEN fee2 + EXTRA_OPTION_FEE_SOL ELSE fee2
  IN  fee3

\* l.19-23: the base fee, plus the surcharge once per flag that is set.
TotalFee(o) ==
  LET fee0 == BASE_FEE_SOL
      fee1 == IF o.revokeMint THEN fee0 + EXTRA_OPTION_FEE_SOL ELSE fee0
      fee2 == IF o.revokeFreeze THEN fee1 + EXTRA_OPTION_FEE_SOL ELSE fee1
      fee3 == IF o.revokeMetadata THEN fee2 + EXTRA_OPTION_FEE_SOL ELSE fee2
      fee4 == IF o.customMetadata THEN fee3 + EXTRA_OPTION_FEE_SOL ELSE fee3
  IN  fee4

\* l.17-25: the handler is synchronous: it answers in the segment it starts in.
CalculateFee(r) ==
  /\ \E m \in BOOLEAN, z \in BOOLEAN, d \in BOOLEAN, c \in BOOLEAN :
       LET o == Options(m, z, d, c)
       IN  /\ Arrive(r, "calculate-fee", Body("", 0, 0, "", 0, 0, o), "done")
           /\ res' = [res EXCEPT ![r] = Append(@,
                        Response(200, "", Payload(0, "", FALSE, TotalFee(o), <<>>)))]
  /\ UNCHANGED <<ledger, history, mints, locals, failed, ops>>

(* --------------------- /generate-payment (l.28-51) --------------------- *)

\* l.47-50: the catch block.
GenerationFailed == ErrorResponse(500, "Failed to generate payment transaction.")

\* l.32-44: the unsigned transfer: from, to, lamports, blockhash, fee payer.
PaymentTransaction(b) ==
  <<b.userWallet, DEV_WALLET, ToLamports(b.fee), "blockhash", b.userWallet>>

\* l.29-40: the transfer is built (new PublicKey throws on a malformed
\* address, which the catch block answers) and getLatestBlockhash is awaited.
GeneratePaymentArrives(r) ==
  /\ \E w \in {"alice", "bob", "not base58"}, f \in FeeInputs :
       LET b == Body(w, f, 0, "", 0, 0, NoFlags)
       IN  IF ValidAddress(w)
             THEN /\ Arrive(r, "generate-payment", b, "getLatestBlockhash")
                  /\ UNCHANGED res
             ELSE /\ Arrive(r, "generate-payment", b, "done")
                  /\ res' = [res EXCEPT ![r] = Append(@, GenerationFailed)]
  /\ UNCHANGED <<ledger, history, mints, locals, failed, ops>>

\* l.40-46: the blockhash arrived; the transaction is serialized and returned.
BlockhashResolves(r) ==
  /\ endpoint[r] = "generate-payment"
  /\ pc[r] = "getLatestBlockhash"
  /\ Reply(r, Response(200, "",
                Payload(0, "", FALSE, 0, PaymentTransaction(body[r]))))
  /\ UNCHANGED <<ledger, history, mints, endpoint, body, locals, failed, ops>>

\* l.47-50: getLatestBlockhash was rejected.
BlockhashRejects(r) ==
  /\ endpoint[r] = "generate-payment"
  /\ pc[r] = "getLatestBlockhash"
  /\ failed' = [failed EXCEPT ![r] = TRUE]
  /\ Reply(r, GenerationFailed)
  /\ UNCHANGED <<ledger, history, mints, endpoint, body, locals, ops>>

GeneratePayment(r) ==
  \/ GeneratePaymentArrives(r)
  \/ BlockhashResolves(r)
  \/ BlockhashRejects(r)

(* ---------------------- /verify-payment (l.54-68) ---------------------- *)

\* l.56: getSignaturesForAddress(DEV_WALLET, { limit: 50 })
SignatureLimit == 50

\* The first n elements of a sequence.
Take(seq, n) == SubSeq(seq, 1, IF n < Len(seq) THEN n ELSE Len(seq))

\* l.59-62: the record the scan stops at.
ScanMatches(txn, b) ==
  /\ txn.present /\ txn.meta
  /\ txn.accountKeys[1] = b.userWallet
  /\ Lamports(txn) >= ToLamports(b.fee)

\* l.63, l.67: the two answers.
PaidResponse(paid) == Response(200, "", Payload(0, "", paid, 0, <<>>))

\* l.55-56: the request arrives and getSignaturesForAddress is awaited.
VerifyPaymentArrives(r) ==
  /\ \E w \in Wallets, f \in FeeInputs :
       Arrive(r, "verify-payment", Body(w, f, 0, "", 0, 0, NoFlags),
              "getSignaturesForAddress")
  /\ UNCHANGED <<ledger, history, mints, locals, res, failed, ops>>

\* l.56-58, l.67: the newest signatures arrived, at most `limit` of them; the
\* loop starts on the first, or ends at once on an empty list.
SignaturesResolve(r) ==
  /\ endpoint[r] = "verify-payment"
  /\ pc[r] = "getSignaturesForAddress"
  /\ LET signatures == Take(history, SignatureLimit)
     IN  /\ locals' = [locals EXCEPT ![r].signatures = signatures, ![r].i = 1]
         /\ IF signatures = <<>>
              THEN Reply(r, PaidResponse(FALSE))
              ELSE pc' = [pc EXCEPT ![r] = "getTransaction"] /\ UNCHANGED res
  /\ UNCHANGED <<ledger, history, mints, endpoint, body, failed, ops>>

\* l.57-67: getTransaction resolved for signatures[i]: answer paid on a
\* match, go on to the next signature otherwise, answer unpaid after the last.
ScanResolves(r) ==
  /\ endpoint[r] = "verify-payment"
  /\ pc[r] = "getTransaction"
  /\ LET i == locals[r].i
         txn == ledger[locals[r].signatures[i]]
     IN  IF ScanMatches(txn, body[r])
           THEN Reply(r, PaidResponse(TRUE)) /\ UNCHANGED locals
         ELSE IF i = Len(locals[r].signatures)
           THEN Reply(r, PaidResponse(FALSE)) /\ UNCHANGED locals
         ELSE /\ locals' = [locals EXCEPT ![r].i = i + 1]
              /\ UNCHANGED <<pc, res>>
  /\ UNCHANGED <<ledger, history, mints, endpoint, body, failed, ops>>

\* l.54-68 has no try/catch: a rejected call rejects the handler's promise.
\* The handler writes nothing.  What happens next is the framework's: Express 4
\* ignores the promise and the request is never answered; Express 5 passes the
\* rejection to its default error handler, which answers 500.
VerifyPaymentCallRejects(r) ==
  /\ endpoint[r] = "verify-payment"
  /\ pc[r] \in {"getSignaturesForAddress", "getTransaction"}
  /\ failed' = [failed EXCEPT ![r] = TRUE]
  /\ \/ pc' = [pc EXCEPT ![r] = "unhandled rejection"] /\ UNCHANGED res
     \/ Reply(r, ErrorResponse(500, "Internal Server Error"))
  /\ UNCHANGED <<ledger, history, mints, endpoint, body, locals, ops>>

VerifyPayment(r) ==
  \/ VerifyPaymentArrives(r)
  \/ SignaturesResolve(r)
  \/ ScanResolves(r)
  \/ VerifyPaymentCallRejects(r)

(* --------------------------- specifications ---------------------------- *)

\* Concurrent /create-token requests of one caller that quote the one
\* signature of the ledger, which is unknown to it, lacks its meta, or is a
\* settled transfer by the caller or by somebody else.
Init ==
  /\ ledger \in [{1} -> LedgerRecords]
  /\ history = HistoryOf(ledger)
  /\ NoRequests

Next == \E r \in Reqs : CreateToken(r, {"alice"}, {1}, {"sk-carol"})

Spec == Init /\ [][Next]_vars

\* One request to any of the four routes over a ledger of two signatures,
\* malformed inputs included.
InitRoutes ==
  /\ ledger \in [{1, 2} -> LedgerRecords]
  /\ history = HistoryOf(ledger)
  /\ NoRequests

Route(r) ==
  \/ CalculateFee(r)
  \/ GeneratePayment(r)
  \/ VerifyPayment(r)
  \/ CreateToken(r, Wallets, {1, 2}, Secrets)

NextRoutes == \E r \in {1} : Route(r)

SpecRoutes == InitRoutes /\ [][NextRoutes]_vars

\* Bounds of the histories /verify-payment scans.
MaxNewer == 1

MaxOlder == 2

\* Sequences over S of length at most n.
SeqsUpTo(S, n) == UNION {[1..k -> S] : k \in 0..n}

\* A transfer to somebody else that also names the operator's wallet.
Bystander(sender, amount) == Paid(<<sender, "bob", DEV_WALLET>>, amount)

\* A payout by the operator: listed for DEV_WALLET, sent by no caller.
Payout == Paid(<<DEV_WALLET, "alice">>, OneOptionFee)

HistoryRecords ==
  {NullTx, NoMetaTx,
   Paid(<<"alice", DEV_WALLET>>, OneOptionFee),
   Paid(<<"alice", DEV_WALLET>>, OneOptionFee - 1),
   Bystander("alice", OneOptionFee)}

\* The operator's history, newest first: a few records, then a run of
\* payouts that reaches to the end of the scanned window or stops one short
\* of it, then a few older records.
Histories ==
  {newer \o [k \in 1..n |-> Payout] \o older :
     newer \in SeqsUpTo(HistoryRecords, MaxNewer),
     n \in {0, SignatureLimit - 1, SignatureLimit},
     older \in SeqsUpTo(HistoryRecords, MaxOlder)}

InitVerify ==
  /\ ledger \in Histories
  /\ history = HistoryOf(ledger)
  /\ NoRequests

NextVerify == \E r \in {1} : VerifyPayment(r)

SpecVerify == InitVerify /\ [][NextVerify]_vars

(* ------------------------------- claims -------------------------------- *)

\* The record the ledger holds for the reference request r quotes.
TxnOf(r) == ledger[body[r].paymentSignature]

IsCreate(r) == endpoint[r] = "create-token"

\* getTransaction resolved for r: the handler is past its first await, and
\* not through the catch block with no token-program call made.
LookupReturned(r) ==
  /\ IsCreate(r)
  /\ pc[r] \notin {"idle", "getTransaction"}
  /\ ~(failed[r] /\ ops[r] = <<>>)

\* r's payment was looked up and not answered with a 400.
Passed(r) ==
  /\ LookupReturned(r)
  /\ \A k \in DOMAIN res[r] : res[r][k].status # 400

\* r was answered once, with a 400 carrying `message`.
RejectedWith(r, message) ==
  /\ pc[r] = "done"
  /\ res[r] = <<ErrorResponse(400, message)>>

\* r was answered 200.
Succeeded(r) == pc[r] = "done" /\ res[r] # <<>> /\ res[r][1].status = 200

MintsOf(r) == {m \in DOMAIN mints : mints[m].creator = r}

\* The payment conditions of the specification, on the ledger's own record.
SettledPayment(txn, b) ==
  /\ txn.present /\ txn.meta
  /\ txn.accountKeys[1] = b.userWallet
  /\ txn.accountKeys[2] = DEV_WALLET
  /\ txn.preBalance0 - txn.postBalance0 >= ToLamports(b.fee)

\* C1: in every interleaving of create-token requests, a token-program call
\* is made and a mint exists for a request only if the ledger's record for
\* that request's reference is complete, its first account is the declared
\* payer, its second the operator and its balance decrease at least the
\* declared fee; a missing or incomplete record is answered 400 with no
\* token-program call.
C1_MintOnlyForSettledPayment ==
  \A r \in Reqs :
    /\ (ops[r] # <<>> \/ MintsOf(r) # {}) =>
         IsCreate(r) /\ SettledPayment(TxnOf(r), body[r])
    /\ (LookupReturned(r) /\ ~(TxnOf(r).present /\ TxnOf(r).meta)) =>
         /\ RejectedWith(r, "Invalid payment transaction.")
         /\ ops[r] = <<>>
         /\ MintsOf(r) = {}

\* C1 witness: a mint was created for one request while another request,
\* quoting the same payment with a higher declared fee, was turned down.
C1_Witness ==
  \E r1, r2 \in Reqs :
    /\ MintsOf(r1) # {}
    /\ RejectedWith(r2, "Incorrect payment amount.")
    /\ MintsOf(r2) = {}

C4_ReceiverMismatchAlways ==
  \A r \in Reqs :
    (/\ LookupReturned(r)
     /\ TxnOf(r).present /\ TxnOf(r).meta
     /\ TxnOf(r).accountKeys[2] # DEV_WALLET) =>
      RejectedWith(r, "Payment receiver does not match dev wallet.")

\* C4 as amended: for a complete record whose first account is the declared
\* payer and whose second account differs from the operator's address the
\* answer is the receiver-mismatch 400, whatever the amount.
C4_ReceiverMismatchReported ==
  \A r \in Reqs :
    (/\ LookupReturned(r)
     /\ TxnOf(r).present /\ TxnOf(r).meta
     /\ TxnOf(r).accountKeys[1] = body[r].userWallet
     /\ TxnOf(r).accountKeys[2] # DEV_WALLET) =>
      RejectedWith(r, "Payment receiver does not match dev wallet.")

\* C4 witness: sender and amount match, the receiver does not, and the answer
\* names the receiver.
C4_Witness ==
  \E r \in Reqs :
    /\ RejectedWith(r, "Payment receiver does not match dev wallet.")
    /\ TxnOf(r).accountKeys[1] = body[r].userWallet
    /\ Lamports(TxnOf(r)) >= ToLamports(body[r].fee)

\* The token-program calls of a request in the order the specification
\* gives: mint, holding account, supply, then each flagged revocation.
Plan(b) ==
  <<"createMint", "getOrCreateAssociatedAccountInfo", "mintTo">>
    \o (IF b.options.revokeMint THEN <<"setAuthority MintTokens">> ELSE <<>>)
    \o (IF b.options.revokeFreeze THEN <<"setAuthority FreezeAccount">> ELSE <<>>)

IsPrefix(s, t) == Len(s) <= Len(t) /\ SubSeq(t, 1, Len(s)) = s

\* How many of r's calls succeeded: all of them once r is answered 200, all
\* but the last (pending, or rejected) before.
StepsDone(r) ==
  IF Succeeded(r) THEN Len(ops[r])
  ELSE IF ops[r] = <<>> THEN 0
  ELSE Len(ops[r]) - 1

HasDone(r, step) == \E k \in 1..StepsDone(r) : ops[r][k] = step

\* The mint the token program holds for r after the steps that succeeded.
MintAfterSteps(r) ==
  LET owner == PublicKeyOf(body[r].payerSecret)
  IN  [creator |-> r,
       mintAuthority |->
         IF HasDone(r, "setAuthority MintTokens") THEN "null" ELSE owner,
       freezeAuthority |->
         IF HasDone(r, "setAuthority FreezeAccount") THEN "null" ELSE owner,
       decimals |-> body[r].decimals,
       supply |-> IF HasDone(r, "mintTo") THEN body[r].supply ELSE 0,
       holder |->
         IF HasDone(r, "getOrCreateAssociatedAccountInfo") THEN owner ELSE ""]

\* C9: within a create-token request the token-program steps run in the
\* order create mint, holding account, supply, flagged revocations, each
\* called once and only after the previous one succeeded; a failed step ends
\* the request with a 500 and no MintResult, no later step is made, and the
\* effects of the steps that succeeded stay on the token program.
C9_SequentialSteps ==
  \A r \in Reqs :
    IsCreate(r) =>
      /\ IsPrefix(ops[r], Plan(body[r]))
      /\ pc[r] \notin {"idle", "getTransaction", "done"} =>
           ops[r] # <<>> /\ pc[r] = ops[r][Len(ops[r])]
      /\ IF StepsDone(r) = 0
           THEN MintsOf(r) = {}
           ELSE \E m \in DOMAIN mints :
                  MintsOf(r) = {m} /\ mints[m] = MintAfterSteps(r)
      /\ failed[r] =>
           /\ pc[r] = "done"
           /\ res[r] = <<ErrorResponse(500, "Token creation failed.")>>
      /\ Succeeded(r) =>
           /\ ops[r] = Plan(body[r])
           /\ \E m \in MintsOf(r) :
                res[r] = <<Response(200, "Token created successfully!",
                             Payload(m, PublicKeyOf(body[r].payerSecret),
                                     FALSE, 0, <<>>))>>

\* C9 witness: issuing the supply failed; the request was answered 500 and
\* its mint, with its holding account and no supply, is still there.
C9_Witness ==
  \E r \in Reqs :
    /\ failed[r]
    /\ pc[r] = "done"
    /\ ops[r] = <<"createMint", "getOrCreateAssociatedAccountInfo", "mintTo">>
    /\ body[r].options.revokeMint
    /\ \E m \in MintsOf(r) : mints[m].supply = 0 /\ mints[m].holder # ""

\* C10: create-token keeps no record of consumed payments: of two requests
\* that quote the same reference each passes verification whenever the record
\* settles its own declared payer and fee, whatever the other request has
\* done, and each gets a mint of its own.
C10_PaymentReusable ==
  \A r1, r2 \in Reqs :
    (/\ r1 # r2
     /\ IsCreate(r1) /\ IsCreate(r2)
     /\ body[r1].paymentSignature = body[r2].paymentSignature) =>
      /\ (LookupReturned(r1) /\ SettledPayment(TxnOf(r1), body[r1])) => Passed(r1)
      /\ MintsOf(r1) \cap MintsOf(r2) = {}
      /\ (Succeeded(r1) /\ Succeeded(r2)) =>
           /\ res[r1][1].payload.mint # res[r2][1].payload.mint
           /\ res[r1][1].payload.mint \in MintsOf(r1)
           /\ res[r2][1].payload.mint \in MintsOf(r2)

\* C10 witness: two requests quoting the same payment were both answered 200,
\* each with its own mint.
C10_Witness ==
  \E r1, r2 \in Reqs :
    /\ r1 # r2
    /\ body[r1].paymentSignature = body[r2].paymentSignature
    /\ Succeeded(r1) /\ Succeeded(r2)
    /\ res[r1][1].payload.mint # res[r2][1].payload.mint
    /\ Len(mints) = 2

\* The number of flags of o that are set.
FlagCount(o) ==
  Cardinality({f \in {"revokeMint", "revokeFreeze", "revokeMetadata",
                      "customMetadata"} : o[f]})

\* C8: calculate-fee answers 200 with the base fee plus the surcharge times
\* the number of flags set, for every combination of the four flags; it
\* awaits nothing and calls nothing.
C8_FeeIsBasePlusSurchargePerFlag ==
  \A r \in Reqs :
    endpoint[r] = "calculate-fee" =>
      /\ pc[r] = "done"
      /\ ~failed[r]
      /\ ops[r] = <<>>
      /\ res[r] = <<Response(200, "",
                      Payload(0, "", FALSE,
                              BASE_FEE_SOL
                                + EXTRA_OPTION_FEE_SOL * FlagCount(body[r].options),
                              <<>>))>>

\* C8 witness: only customMetadata and revokeFreeze are set and the answer is
\* the base fee plus two surcharges.
C8_Witness ==
  \E r \in Reqs :
    /\ endpoint[r] = "calculate-fee"
    /\ body[r].options = Options(FALSE, TRUE, FALSE, TRUE)
    /\ res[r][1].payload.totalFee = BASE_FEE_SOL + 2 * EXTRA_OPTION_FEE_SOL

\* C5: on generate-payment, verify-payment and create-token a handler that
\* has ended has written exactly one response, and a request for which a
\* ledger or token-program call was rejected is answered with one 500.
C5_FailuresAnsweredWith500 ==
  \A r \in Reqs :
    endpoint[r] \in {"generate-payment", "verify-payment", "create-token"} =>
      /\ Len(res[r]) <= 1
      /\ pc[r] \in {"done", "unhandled rejection"} => Len(res[r]) = 1
      /\ failed[r] =>
           /\ Len(res[r]) = 1
           /\ res[r][1].status = 500
           /\ res[r][1].payload = NoPayload

\* The records verify-payment has fetched so far.
Scanned(r) ==
  {locals[r].signatures[k] :
     k \in {j \in 1..Len(locals[r].signatures) : j <= locals[r].i}}

AnsweredPaid(r, paid) ==
  /\ endpoint[r] = "verify-payment"
  /\ pc[r] = "done"
  /\ res[r] = <<PaidResponse(paid)>>

\* C6: verify-payment answers paid:true only if a scanned record is a
\* payment of the expected sender to the operator, as second account, of at
\* least the expected amount: the predicate of reference mode.
C6_SamePredicate ==
  \A r \in Reqs :
    AnsweredPaid(r, TRUE) =>
      \E sig \in Scanned(r) : SettledPayment(ledger[sig], body[r])

\* The newest signatures of the operator's history, at most the window.
Window == Take(history, SignatureLimit)

\* C7: verify-payment fetches the detail of at most the window's newest
\* records, newest first; it answers paid:true at the first qualifying
\* record, and paid:false when no record of the window qualifies, whatever
\* lies beyond the window; a record without detail is no match.
C7_WindowedScan ==
  \A r \in Reqs :
    (endpoint[r] = "verify-payment" /\ locals[r].i >= 1) =>
      /\ locals[r].signatures = Window
      /\ Len(locals[r].signatures) <= SignatureLimit
      /\ Cardinality(Scanned(r)) <= SignatureLimit
      /\ AnsweredPaid(r, TRUE) =>
           /\ SettledPayment(ledger[Window[locals[r].i]], body[r])
           /\ \A k \in 1..(locals[r].i - 1) :
                ~SettledPayment(ledger[Window[k]], body[r])
      /\ AnsweredPaid(r, FALSE) =>
           \A k \in 1..Len(Window) : ~SettledPayment(ledger[Window[k]], body[r])
      /\ (pc[r] = "done" /\ ~failed[r]
            /\ \A k \in 1..Len(Window) :
                 ~SettledPayment(ledger[Window[k]], body[r])) =>
           AnsweredPaid(r, FALSE)

\* The check the scan makes itself: sender and amount, on a complete record.
SenderAndAmount(txn, b) ==
  /\ txn.present /\ txn.meta
  /\ txn.accountKeys[1] = b.userWallet
  /\ txn.preBalance0 - txn.postBalance0 >= ToLamports(b.fee)

\* The part of C7 that does not rest on the receiver: with "qualifying" read
\* as the scan's own check of sender and amount, the scan keeps to the
\* window, stops at the first match and answers unpaid when the window holds
\* none, whatever lies beyond it.
WindowedScanOfSenderAndAmount ==
  \A r \in Reqs :
    (endpoint[r] = "verify-payment" /\ locals[r].i >= 1) =>
      /\ locals[r].signatures = Window
      /\ Cardinality(Scanned(r)) <= SignatureLimit
      /\ AnsweredPaid(r, TRUE) =>
           /\ SenderAndAmount(ledger[Window[locals[r].i]], body[r])
           /\ \A k \in 1..(locals[r].i - 1) :
                ~SenderAndAmount(ledger[Window[k]], body[r])
      /\ AnsweredPaid(r, FALSE) =>
           \A k \in 1..Len(Window) : ~SenderAndAmount(ledger[Window[k]], body[r])
      /\ (pc[r] = "done" /\ ~failed[r]
            /\ \A k \in 1..Len(Window) :
                 ~SenderAndAmount(ledger[Window[k]], body[r])) =>
           AnsweredPaid(r, FALSE)

\* A state the lemma is about: the scan answered unpaid although a record
\* beyond the window matches.
BeyondWindowWitness ==
  \E r \in Reqs :
    /\ AnsweredPaid(r, FALSE)
    /\ \E k \in (SignatureLimit + 1)..Len(history) :
         SenderAndAmount(ledger[history[k]], body[r])

====
